---- MODULE Spec2Model ----
(***************************************************************************)
(* Intrusion alerting pipeline: publisher.py (edge sentinel: frame loop,   *)
(* cooldown gate, evidence capture, MQTT publish, background reconnect)    *)
(* and subscriber.py (monitor: receive loop, message handler, blocking     *)
(* reconnect).  The two scripts are separate processes; a behaviour of     *)
(* this module is a run of one of them, chosen in Init (prog).             *)
(*                                                                         *)
(* Two parts of the scripts are also run on inputs of their own: the       *)
(* intrusion flag of one frame's detections (DetectSpec) and one alert     *)
(* payload going from publish_alert to on_message (WireSpec).              *)
(*                                                                         *)
(* Time is wall-clock time in whole seconds (time.time()).  The clock is   *)
(* an input that never decreases.                                          *)
(***************************************************************************)
EXTENDS Integers, Sequences, FiniteSets, TLC

VARIABLES
  prog,            \* which script runs: "publisher" or "subscriber" (or which
                   \* part runs on its own inputs: "detect", "wire")
  \* ---- publisher.py
  pubPc,           \* position of main(): "connect", "camera", "loop", "finally", "exited"
  pubExit,         \* exit status of the process, NoExit while it runs
  pubExitPath,     \* how main() was left: "none", "connect_failed", "camera_failed",
                   \* "quit", "interrupt", "error"
  pubConn,         \* client connection: "disconnected" or "connected"
  loopRunning,     \* client.loop_start() done and loop_stop() not yet
  camOpen,         \* cap.isOpened()
  clock,           \* the latest reading of time.time()
  last_sent,       \* main()'s local last_sent (None or a time)
  frame,           \* what the latest iteration of the frame loop did
  lastAcceptedAt,  \* history: `now` of the latest frame the gate accepted
  lastPublishOutcome, \* history: "returned" or "raised" for that frame's publish
  prevPubAt,       \* history: time of the publish call that returned before lastPubAt
  lastPubAt,       \* history: time of the latest publish call that returned
  pubDisconnects,  \* history: unexpected disconnect events seen by on_disconnect
  pubReconnects,   \* history: client.reconnect() calls made by on_disconnect
  pubReconnectFailures, \* history: "[MQTT] reconnect failed" lines logged
  \* ---- subscriber.py
  subPc,           \* position of main(): "connect", "listening", "retry", "finally", "exited"
  subExit,         \* exit status of the process, NoExit while it runs
  subConn,         \* client connection: "disconnected" or "connected"
  subAcked,        \* on_connect has run for the current connection
  subSubscribed,   \* client.subscribe(MQTT_TOPIC) issued on the current connection
  subExitPath,     \* how main() was left: "none", "connect_failed", "interrupt",
                   \* "exception" (one that left loop_forever uncaught)
  subHandled,      \* history: on_message calls so far
  subLast,         \* history: what the latest on_message call did
  subRetries,      \* failed client.reconnect() calls of the current retry loop
  subSlept,        \* seconds slept after the latest failed reconnect
  subDisconnects,  \* history: unexpected disconnect events seen by on_disconnect
  subAckRc,        \* history: rc of the on_connect call for the current connection
  \* ---- the pure parts, run on their own inputs (prog "detect" and "wire")
  detections,      \* the boxes YOLO returned for one frame (lines 135-137)
  flagged,         \* "unset", or the intrusion flag after lines 132-167
  wireEvent,       \* the payload dict publish_alert built (lines 73-77)
  wirePayload,     \* the MQTT payload in flight: [utf8, text]
  wireReceived     \* what on_message did with it

pubVars ==
  <<pubPc, pubExit, pubExitPath, pubConn, loopRunning, camOpen, clock, last_sent,
    frame, lastAcceptedAt, lastPublishOutcome, prevPubAt, lastPubAt, pubDisconnects, pubReconnects,
    pubReconnectFailures>>

subVars ==
  <<subPc, subExit, subConn, subAcked, subSubscribed, subExitPath, subHandled,
    subLast, subRetries, subSlept, subDisconnects, subAckRc>>

pureVars ==
  <<detections, flagged, wireEvent, wirePayload, wireReceived>>

vars ==
  <<prog, pubVars, subVars, pureVars>>

\* ------------------------------------------------------------------------
\* Program constants
\* ------------------------------------------------------------------------
COOLDOWN_SECONDS ==
  5

\* Python's None for last_sent / a time that was never set.
None ==
  -1

\* The value publish_alert returns when the first publish raises (0.0).
EPOCH_ZERO ==
  0

\* Exit statuses: a process that is still running has NoExit.
NoExit ==
  -1

EXIT_OK ==
  0

EXIT_FAILURE ==
  1

\* ------------------------------------------------------------------------
\* Bounds of the model
\* ------------------------------------------------------------------------
\* time.time() at process start (seconds since the epoch, far above the cooldown)
StartTime ==
  10

\* the run is followed for Horizon seconds
Horizon ==
  8

\* largest time between two iterations of the frame loop
MaxStep ==
  2

\* largest time taken by cv2.imwrite, and by client.publish
MaxDelay ==
  1

\* unexpected disconnect events followed per run
MaxDisconnects ==
  2

\* failed reconnect attempts counted per retry loop (the count saturates)
MaxRetries ==
  3

\* inbound messages followed per run
MaxMessages ==
  3

\* detections in one frame
MaxDetections ==
  2

\* pieces in a string of a payload
MaxTextLen ==
  3

MaxTime ==
  StartTime + Horizon

\* ------------------------------------------------------------------------
\* publisher.py: pure parts
\* ------------------------------------------------------------------------
\* the gate with the comparison off by one second
CooldownAccepts_OffByOne(ls, now) ==
  (ls = None) \/ (now - ls >= COOLDOWN_SECONDS - 1)

\* line 195: (last_sent is None) or (now - last_sent >= COOLDOWN_SECONDS)
CooldownAccepts(ls, now) ==
  (ls = None) \/ (now - ls >= COOLDOWN_SECONDS)

\* publish_alert returning 0.0 after every publish that raised
publish_alert_ZeroOnFailure(ls, publishOk, tReturn) ==
  IF publishOk THEN tReturn ELSE EPOCH_ZERO

\* publish_alert's return value: time.time() after a publish that returned,
\* the old last_sent (0.0 for None) after a publish that raised.
publish_alert(ls, publishOk, tReturn) ==
  IF publishOk
    THEN tReturn
    ELSE IF ls # None THEN ls ELSE EPOCH_ZERO

\* ------------------------------------------------------------------------
\* publisher.py: detections and the restricted zone (lines 31-36, 88-94,
\* 132-167).  A coordinate is a fixed-point number of SUBPIXEL units per
\* pixel, so that YOLO's fractional corners, their int() and the halves of
\* a centre are all exact.  A confidence is in hundredths.
\* ------------------------------------------------------------------------
SUBPIXEL ==
  4

Px(n) ==
  n * SUBPIXEL

\* line 31: CONF_THRESHOLD = 0.5
CONF_THRESHOLD ==
  50

\* lines 35-36: the zone's corners, in pixels
ROI_X1 ==
  100

ROI_Y1 ==
  100

ROI_X2 ==
  500

ROI_Y2 ==
  400

\* point_in_rect with the left and top edges left out
point_in_rect_Strict(cx, cy, x1, y1, x2, y2) ==
  (x1 < cx /\ cx <= x2) /\ (y1 < cy /\ cy <= y2)

\* lines 88-94: return (x1 <= cx <= x2) and (y1 <= cy <= y2)
point_in_rect(cx, cy, x1, y1, x2, y2) ==
  (x1 <= cx /\ cx <= x2) /\ (y1 <= cy /\ cy <= y2)

\* line 147: int(v) of map(int, box.xyxy[0]) drops the fraction (the corners
\* of a box are inside the image, so v >= 0)
IntOf(v) ==
  (v \div SUBPIXEL) * SUBPIXEL

\* lines 139-144: the detections that are not skipped by `continue`
IsConfidentPerson(det) ==
  ~(det.label # "person" \/ det.conf < CONF_THRESHOLD)

\* lines 147-149 and 165: the centre of the box of whole pixels, tested
\* against the zone
CenterInZone(det) ==
  LET x1 == IntOf(det.x1)
      y1 == IntOf(det.y1)
      x2 == IntOf(det.x2)
      y2 == IntOf(det.y2)
      cx == (x1 + x2) \div 2
      cy == (y1 + y2) \div 2
  IN  point_in_rect(cx, cy, Px(ROI_X1), Px(ROI_Y1), Px(ROI_X2), Px(ROI_Y2))

\* lines 132-167: intrusion starts False and is set by any detection that
\* passes both tests
RECURSIVE FrameIntrusion(_)
FrameIntrusion(dets) ==
  IF dets = << >>
    THEN FALSE
    ELSE LET rest == FrameIntrusion(Tail(dets))
         IN  IF IsConfidentPerson(dets[1]) /\ CenterInZone(dets[1])
               THEN TRUE
               ELSE rest

\* a box by its corners in pixels, fx1 and fx2 being the fractions of the
\* x corners in SUBPIXEL units
Box(x1, fx1, y1, x2, fx2, y2) ==
  [x1 |-> Px(x1) + fx1, y1 |-> Px(y1), x2 |-> Px(x2) + fx2, y2 |-> Px(y2)]

\* boxes around the zone's centre, corners and right and left edges
Boxes ==
  { Box(200, 0, 150, 400, 0, 350),
    Box(50, 0, 50, 150, 0, 150),
    Box(450, 0, 350, 550, 0, 450),
    Box(400, 0, 200, 600, 0, 300),
    Box(401, 0, 200, 600, 0, 300),
    Box(0, 0, 200, 199, 0, 300),
    Box(500, 0, 200, 500, 2, 300),
    Box(99, 2, 200, 100, 2, 300),
    Box(600, 0, 420, 640, 0, 480) }

Detection(label, conf, box) ==
  [label |-> label, conf |-> conf, x1 |-> box.x1, y1 |-> box.y1,
   x2 |-> box.x2, y2 |-> box.y2]

Detections ==
  {Detection(label, conf, box) : label \in {"person", "dog"}, conf \in {49, 50},
                                 box \in Boxes}

\* the detection lists of a frame, MaxDetections boxes at most
Frames ==
  UNION {[1..n -> Detections] : n \in 0..MaxDetections}

\* the frames the camera of the frame loop delivers
CameraFrames ==
  { << >>,
    <<Detection("person", 90, Box(200, 0, 150, 400, 0, 350))>>,
    <<Detection("dog", 90, Box(200, 0, 150, 400, 0, 350))>> }

\* lines 197-198: EVIDENCE_DIR / f"intruder_{ts_str}.jpg" with ts_str the
\* "%Y%m%d_%H%M%S" of datetime.now(): one name per second, here the second
EvidenceName(t) ==
  t

\* on_disconnect calling client.reconnect() whatever rc is
PubReconnectsOn_Always(rc) ==
  TRUE

\* line 55: `if rc != 0:` guards the whole body of on_disconnect
PubReconnectsOn(rc) ==
  rc # 0

Act(act, result) ==
  [act |-> act, result |-> result]

\* lines 182-205 with the publish call made before the evidence write
FrameActs_PublishFirst(intrusion, accepts, writeOk, publishOk) ==
  IF ~intrusion
    THEN << >>
  ELSE IF ~accepts
    THEN <<Act("gate", "rejects")>>
  ELSE <<Act("gate", "accepts"),
         Act("publish", IF publishOk THEN "returned" ELSE "raised"),
         Act("imwrite", IF writeOk THEN "written" ELSE "failed")>>

\* lines 182-205 with publish_alert called inside the try block of the
\* evidence write: a failed write skips the publish
FrameActs_WriteFailureSkipsPublish(intrusion, accepts, writeOk, publishOk) ==
  IF ~intrusion
    THEN << >>
  ELSE IF ~accepts
    THEN <<Act("gate", "rejects")>>
  ELSE IF ~writeOk
    THEN <<Act("gate", "accepts"), Act("imwrite", "failed")>>
  ELSE <<Act("gate", "accepts"), Act("imwrite", "written"),
         Act("publish", IF publishOk THEN "returned" ELSE "raised")>>

\* lines 182-205: what one iteration does after `now` is read, in order:
\* nothing unless intrusion (line 182); the cooldown test (line 195); if it
\* accepts, cv2.imwrite in its own try/except (lines 199-203), then
\* publish_alert, whose try/except is inside it (lines 205, 79-85)
FrameActs(intrusion, accepts, writeOk, publishOk) ==
  IF ~intrusion
    THEN << >>
  ELSE IF ~accepts
    THEN <<Act("gate", "rejects")>>
  ELSE <<Act("gate", "accepts"),
         Act("imwrite", IF writeOk THEN "written" ELSE "failed"),
         Act("publish", IF publishOk THEN "returned" ELSE "raised")>>

\* the result of an act of the iteration, "none" if it was not made
ActResult(acts, act) ==
  IF \E i \in 1..Len(acts) : acts[i].act = act
    THEN acts[CHOOSE i \in 1..Len(acts) : acts[i].act = act].result
    ELSE "none"

NoFrame ==
  [ret |-> FALSE, intrusion |-> FALSE, now |-> None, accepted |-> FALSE,
   acts |-> << >>, name |-> None, evidence |-> "none", publish |-> "none",
   fault |-> "none"]

\* ------------------------------------------------------------------------
\* publisher.py: main()
\* ------------------------------------------------------------------------
\* lines 106-112: client.connect + loop_start, or print and return
PubConnect(ok) ==
  /\ prog = "publisher"
  /\ pubPc = "connect"
  /\ IF ok
       THEN /\ pubConn' = "connected"
            /\ loopRunning' = TRUE
            /\ pubPc' = "camera"
            /\ UNCHANGED <<pubExit, pubExitPath>>
       ELSE /\ pubPc' = "exited"
            /\ pubExitPath' = "connect_failed"
            /\ pubExit' = EXIT_OK
            /\ UNCHANGED <<pubConn, loopRunning>>
  /\ UNCHANGED <<pureVars, subVars, prog, camOpen, clock, last_sent, frame, lastAcceptedAt,
                 lastPublishOutcome, prevPubAt, lastPubAt, pubDisconnects, pubReconnects,
                 pubReconnectFailures>>

\* lines 115-120: open the camera, or print and return; last_sent = None
PubOpenCamera(ok) ==
  /\ prog = "publisher"
  /\ pubPc = "camera"
  /\ IF ok
       THEN /\ camOpen' = TRUE
            /\ pubPc' = "loop"
            /\ last_sent' = None
            /\ UNCHANGED <<pubExit, pubExitPath>>
       ELSE /\ pubPc' = "exited"
            /\ pubExitPath' = "camera_failed"
            /\ pubExit' = EXIT_OK
            /\ UNCHANGED <<camOpen, last_sent>>
  /\ UNCHANGED <<pureVars, subVars, prog, pubConn, loopRunning, clock, frame, lastAcceptedAt,
                 lastPublishOutcome, prevPubAt, lastPubAt, pubDisconnects, pubReconnects,
                 pubReconnectFailures>>

\* lines 124-128: cap.read() failed: print, sleep, continue.  The sleep can
\* be interrupted (KeyboardInterrupt, line 213).
PubFrameNoRead(dt, interrupt) ==
  /\ prog = "publisher"
  /\ pubPc = "loop"
  /\ clock + dt <= MaxTime
  /\ clock' = clock + dt
  /\ frame' = [NoFrame EXCEPT !.now = None,
                              !.fault = IF interrupt THEN "interrupt" ELSE "none"]
  /\ pubPc' = IF interrupt THEN "finally" ELSE "loop"
  /\ pubExitPath' = IF interrupt THEN "interrupt" ELSE pubExitPath
  /\ UNCHANGED <<pureVars, subVars, prog, pubExit, pubConn, loopRunning, camOpen, last_sent,
                 lastAcceptedAt, lastPublishOutcome, prevPubAt, lastPubAt, pubDisconnects,
                 pubReconnects, pubReconnectFailures>>

\* line 135: model(frame) raises: except Exception (line 215), then finally
PubFrameInferenceError(dt) ==
  /\ prog = "publisher"
  /\ pubPc = "loop"
  /\ clock + dt <= MaxTime
  /\ clock' = clock + dt
  /\ frame' = [NoFrame EXCEPT !.ret = TRUE, !.fault = "error"]
  /\ pubPc' = "finally"
  /\ pubExitPath' = "error"
  /\ UNCHANGED <<pureVars, subVars, prog, pubExit, pubConn, loopRunning, camOpen, last_sent,
                 lastAcceptedAt, lastPublishOutcome, prevPubAt, lastPubAt, pubDisconnects,
                 pubReconnects, pubReconnectFailures>>

\* lines 124-211: one iteration with a frame read.  intrusion is the flag of
\* lines 132-167; now is time.time() of line 181 (dt after the last reading);
\* imwrite takes d1 and raises or not (writeOk); publish takes d2 and raises
\* or not (publishOk); then imshow/waitKey: "none" goes on, "quit" is the q
\* key, "interrupt" is Ctrl+C, "error" is any other exception.
PubFrame(intrusion, dt, d1, d2, writeOk, publishOk, fault) ==
  /\ prog = "publisher"
  /\ pubPc = "loop"
  /\ LET now == clock + dt
         accepted == intrusion /\ CooldownAccepts(last_sent, now)
         acts == FrameActs(intrusion, CooldownAccepts(last_sent, now), writeOk, publishOk)
         tPublish == now + d1
         tReturn == tPublish + d2
     IN  /\ IF accepted THEN tReturn <= MaxTime ELSE now <= MaxTime
         /\ IF accepted
              THEN /\ clock' = tReturn
                   /\ last_sent' = publish_alert(last_sent, publishOk, tReturn)
                   /\ lastAcceptedAt' = now
                   /\ lastPublishOutcome' = IF publishOk THEN "returned" ELSE "raised"
                   /\ IF publishOk
                        THEN /\ prevPubAt' = lastPubAt
                             /\ lastPubAt' = tPublish
                        ELSE UNCHANGED <<prevPubAt, lastPubAt>>
                   /\ frame' = [ret |-> TRUE, intrusion |-> intrusion, now |-> now,
                                accepted |-> TRUE, acts |-> acts,
                                name |-> EvidenceName(now),
                                evidence |-> ActResult(acts, "imwrite"),
                                publish |-> ActResult(acts, "publish"),
                                fault |-> fault]
              ELSE /\ clock' = now
                   /\ frame' = [ret |-> TRUE, intrusion |-> intrusion, now |-> now,
                                accepted |-> FALSE, acts |-> acts, name |-> None,
                                evidence |-> ActResult(acts, "imwrite"),
                                publish |-> ActResult(acts, "publish"),
                                fault |-> fault]
                   /\ UNCHANGED <<last_sent, lastAcceptedAt, lastPublishOutcome,
                                  prevPubAt, lastPubAt>>
  /\ pubPc' = IF fault = "none" THEN "loop" ELSE "finally"
  /\ pubExitPath' = IF fault = "none" THEN pubExitPath ELSE fault
  /\ UNCHANGED <<pureVars, subVars, prog, pubExit, pubConn, loopRunning, camOpen, pubDisconnects,
                 pubReconnects, pubReconnectFailures>>

\* lines 217-222: finally: cap.release, destroyAllWindows, loop_stop,
\* disconnect; main returns and the process ends with status 0.  The
\* disconnect is the client's own: on_disconnect, if the library calls it,
\* gets rc = 0, and a reconnect it made would leave the client connected.
PubShutdown ==
  /\ prog = "publisher"
  /\ pubPc = "finally"
  /\ camOpen' = FALSE
  /\ loopRunning' = FALSE
  /\ IF PubReconnectsOn(0)
       THEN /\ pubConn' = "connected"
            /\ pubReconnects' = pubReconnects + 1
       ELSE /\ pubConn' = "disconnected"
            /\ pubReconnects' = pubReconnects
  /\ pubPc' = "exited"
  /\ pubExit' = EXIT_OK
  /\ UNCHANGED <<pureVars, subVars, prog, pubExitPath, clock, last_sent, frame, lastAcceptedAt,
                 lastPublishOutcome, prevPubAt, lastPubAt, pubDisconnects, pubReconnectFailures>>

\* on_disconnect trying a second client.reconnect() after a failed one
PubOnDisconnect_Retry(rc, reconnectOk) ==
  /\ prog = "publisher"
  /\ pubPc \in {"camera", "loop", "finally"}
  /\ loopRunning
  /\ pubConn = "connected"
  /\ pubDisconnects < MaxDisconnects
  /\ pubDisconnects' = pubDisconnects + 1
  /\ pubReconnects' = IF reconnectOk THEN pubReconnects + 1 ELSE pubReconnects + 2
  /\ pubConn' = "connected"
  /\ pubReconnectFailures' =
       IF reconnectOk THEN pubReconnectFailures ELSE pubReconnectFailures + 1
  /\ UNCHANGED <<pureVars, subVars, prog, pubPc, pubExit, pubExitPath, loopRunning, camOpen,
                 clock, last_sent, frame, lastAcceptedAt, lastPublishOutcome,
                 prevPubAt, lastPubAt>>

\* lines 53-60: on_disconnect, run on the loop_start thread when the
\* connection is lost: for rc # 0 one client.reconnect(), whose failure is
\* printed
PubOnDisconnect(rc, reconnectOk) ==
  /\ prog = "publisher"
  /\ pubPc \in {"camera", "loop", "finally"}
  /\ loopRunning
  /\ pubConn = "connected"
  /\ pubDisconnects < MaxDisconnects
  /\ IF PubReconnectsOn(rc)
       THEN /\ pubDisconnects' = pubDisconnects + 1
            /\ pubReconnects' = pubReconnects + 1
            /\ pubConn' = IF reconnectOk THEN "connected" ELSE "disconnected"
            /\ pubReconnectFailures' =
                 IF reconnectOk THEN pubReconnectFailures ELSE pubReconnectFailures + 1
       ELSE /\ pubConn' = "disconnected"
            /\ UNCHANGED <<pubDisconnects, pubReconnects, pubReconnectFailures>>
  /\ UNCHANGED <<pureVars, subVars, prog, pubPc, pubExit, pubExitPath, loopRunning, camOpen,
                 clock, last_sent, frame, lastAcceptedAt, lastPublishOutcome,
                 prevPubAt, lastPubAt>>

PubNext ==
  \/ \E ok \in BOOLEAN : PubConnect(ok)
  \/ \E ok \in BOOLEAN : PubOpenCamera(ok)
  \/ \E dt \in 0..MaxStep, interrupt \in BOOLEAN : PubFrameNoRead(dt, interrupt)
  \/ \E dt \in 0..MaxStep : PubFrameInferenceError(dt)
  \/ \E intrusion \in {FrameIntrusion(dets) : dets \in CameraFrames},
        dt \in 0..MaxStep, d1 \in 0..MaxDelay,
        d2 \in 0..MaxDelay, writeOk \in BOOLEAN, publishOk \in BOOLEAN,
        fault \in {"none", "quit", "interrupt", "error"} :
       PubFrame(intrusion, dt, d1, d2, writeOk, publishOk, fault)
  \/ PubShutdown
  \/ \E rc \in {1, 7}, ok \in BOOLEAN : PubOnDisconnect(rc, ok)

\* ------------------------------------------------------------------------
\* Wire format: a payload is bytes; here, whether the bytes are valid UTF-8
\* and the JSON tokens of the text they decode to.
\* ------------------------------------------------------------------------
Tok(t, v) ==
  [t |-> t, v |-> v]

\* A string is a sequence of pieces: a piece is a run of plain characters
\* or one character that json writes as an escape.  CJK is one non-ASCII
\* character (U+5BA2).
QUOTE == "\""
BACKSLASH == "\\"
LF == "\n"
CJK == "<U+5BA2>"

\* a string of plain characters
Text(s) ==
  IF s = "" THEN << >> ELSE <<s>>

\* json.dumps (ensure_ascii) leaving a backslash as it is
EscapePiece_BackslashKept(c) ==
  CASE c = QUOTE -> <<BACKSLASH, QUOTE>>
    [] c = LF -> <<BACKSLASH, "n">>
    [] c = CJK -> <<BACKSLASH, "u5ba2">>
    [] OTHER -> <<c>>

\* json.dumps (ensure_ascii): what is written for one piece of a string
EscapePiece(c) ==
  CASE c = QUOTE -> <<BACKSLASH, QUOTE>>
    [] c = BACKSLASH -> <<BACKSLASH, BACKSLASH>>
    [] c = LF -> <<BACKSLASH, "n">>
    [] c = CJK -> <<BACKSLASH, "u5ba2">>
    [] OTHER -> <<c>>

\* json.dumps: the text between the quotes of a string literal
RECURSIVE JsonEscape(_)
JsonEscape(s) ==
  IF s = << >>
    THEN << >>
    ELSE EscapePiece(s[1]) \o JsonEscape(Tail(s))

\* json.loads: what may follow a backslash, and what it stands for
IsEscapeCode(c) ==
  c \in {QUOTE, BACKSLASH, "n", "u5ba2"}

EscapedPiece(c) ==
  CASE c = QUOTE -> QUOTE
    [] c = BACKSLASH -> BACKSLASH
    [] c = "n" -> LF
    [] c = "u5ba2" -> CJK

\* json.loads (strict): the text between the quotes is a string literal: no
\* bare quote or control character, a known escape after each backslash
RECURSIVE IsStringLiteral(_)
IsStringLiteral(raw) ==
  IF raw = << >>
    THEN TRUE
  ELSE IF raw[1] = BACKSLASH
    THEN /\ Len(raw) >= 2
         /\ IsEscapeCode(raw[2])
         /\ IsStringLiteral(SubSeq(raw, 3, Len(raw)))
  ELSE /\ raw[1] \notin {QUOTE, LF}
       /\ IsStringLiteral(Tail(raw))

\* json.loads: the string a string literal stands for
RECURSIVE JsonUnescape(_)
JsonUnescape(raw) ==
  IF raw = << >>
    THEN << >>
  ELSE IF raw[1] = BACKSLASH
    THEN <<EscapedPiece(raw[2])>> \o JsonUnescape(SubSeq(raw, 3, Len(raw)))
  ELSE <<raw[1]>> \o JsonUnescape(Tail(raw))

LBRACE == Tok("{", << >>)
RBRACE == Tok("}", << >>)
LBRACK == Tok("[", << >>)
RBRACK == Tok("]", << >>)
COLON == Tok(":", << >>)
COMMA == Tok(",", << >>)
NULL == Tok("null", << >>)
JUNK == Tok("junk", << >>)

\* a string literal of plain characters, and one given by its text
Str(s) ==
  Tok("str", Text(s))

StrLit(raw) ==
  Tok("str", raw)

Num(s) ==
  Tok("num", Text(s))

IsStrTok(tok) ==
  tok.t = "str" /\ IsStringLiteral(tok.v)

IsScalarTok(tok) ==
  tok.t \in {"num", "null"} \/ IsStrTok(tok)

\* a decoded JSON value: kind is "str", "num", "null", "list", "dict" or
\* "invalid" (json.loads raised); members are a dict's key/value pairs in
\* the order of the text
JsonValue(kind, v, members) ==
  [kind |-> kind, v |-> v, members |-> members]

JsonInvalid ==
  JsonValue("invalid", << >>, << >>)

JsonStr(s) ==
  JsonValue("str", Text(s), << >>)

ScalarOf(tok) ==
  IF tok.t = "str"
    THEN JsonValue("str", JsonUnescape(tok.v), << >>)
    ELSE JsonValue(tok.t, tok.v, << >>)

\* the items of a list between the brackets: scalar (, scalar)*
RECURSIVE IsItems(_)
IsItems(toks) ==
  IF Len(toks) = 1
    THEN IsScalarTok(toks[1])
    ELSE /\ Len(toks) >= 3
         /\ IsScalarTok(toks[1])
         /\ toks[2] = COMMA
         /\ IsItems(SubSeq(toks, 3, Len(toks)))

\* the members of an object between the braces: "key" : scalar (, ...)*
RECURSIVE IsMembers(_)
IsMembers(toks) ==
  /\ Len(toks) >= 3
  /\ IsStrTok(toks[1])
  /\ toks[2] = COLON
  /\ IsScalarTok(toks[3])
  /\ \/ Len(toks) = 3
     \/ /\ Len(toks) >= 5
        /\ toks[4] = COMMA
        /\ IsMembers(SubSeq(toks, 5, Len(toks)))

RECURSIVE MembersOf(_)
MembersOf(toks) ==
  IF Len(toks) < 3
    THEN << >>
    ELSE <<[key |-> JsonUnescape(toks[1].v), val |-> ScalarOf(toks[3])]>>
           \o MembersOf(SubSeq(toks, 5, Len(toks)))

\* json.loads on the texts of this model: scalars, lists of scalars and
\* objects of scalars; anything else raises
JsonLoads(toks) ==
  LET n == Len(toks)
      inner == SubSeq(toks, 2, n - 1)
  IN  IF n = 1 /\ IsScalarTok(toks[1])
        THEN ScalarOf(toks[1])
      ELSE IF n >= 2 /\ toks[1] = LBRACK /\ toks[n] = RBRACK
                 /\ (n = 2 \/ IsItems(inner))
        THEN JsonValue("list", << >>, << >>)
      ELSE IF n >= 2 /\ toks[1] = LBRACE /\ toks[n] = RBRACE
                 /\ (n = 2 \/ IsMembers(inner))
        THEN JsonValue("dict", << >>, MembersOf(inner))
      ELSE JsonInvalid

\* json.dumps of a dict of strings: the members in insertion order
RECURSIVE DumpMembers(_)
DumpMembers(members) ==
  IF members = << >>
    THEN << >>
    ELSE <<StrLit(JsonEscape(members[1].key)), COLON,
           StrLit(JsonEscape(members[1].val))>>
           \o (IF Len(members) = 1 THEN << >> ELSE <<COMMA>>)
           \o DumpMembers(Tail(members))

JsonDumps(members) ==
  <<LBRACE>> \o DumpMembers(members) \o <<RBRACE>>

\* dict.get(key, default): json.loads keeps the last of duplicate keys
DictGet(d, key, default) ==
  LET hits == {i \in 1..Len(d.members) : d.members[i].key = Text(key)}
  IN  IF hits = {}
        THEN default
        ELSE d.members[CHOOSE i \in hits : \A j \in hits : j <= i].val

\* ------------------------------------------------------------------------
\* subscriber.py
\* ------------------------------------------------------------------------
\* line 66: time.sleep(5)
RETRY_DELAY_SECONDS ==
  5

\* line 57: `if rc != 0:` guards the retry loop of on_disconnect
SubReconnectsOn(rc) ==
  rc # 0

\* the defaults of lines 76-78 (the source's literals are Chinese text)
DEFAULT_STATUS == JsonStr("")
DEFAULT_TIMESTAMP == JsonStr("<unknown time>")
DEFAULT_LOCATION == JsonStr("<unknown location>")

\* no payload dict built, no payload on the wire
NoEvent ==
  << >>

NoPayload ==
  [utf8 |-> TRUE, text |-> << >>]

NoMessage ==
  [msg |-> [utf8 |-> TRUE, text |-> << >>], outcome |-> "none", sink |-> 0,
   beeps |-> 0, status |-> JsonInvalid, location |-> JsonInvalid,
   timestamp |-> JsonInvalid]

\* on_message reading data["timestamp"] and data["location"] inside the try
\* block: a missing key is a parse failure
on_message_FieldsRequired(msg) ==
  LET data == IF msg.utf8 THEN JsonLoads(msg.text) ELSE JsonInvalid
      status == DictGet(data, "status", DEFAULT_STATUS)
      ts == DictGet(data, "timestamp", JsonInvalid)
      location == DictGet(data, "location", JsonInvalid)
  IN  IF data.kind = "invalid"
        THEN [NoMessage EXCEPT !.msg = msg, !.outcome = "parse_failed"]
      ELSE IF data.kind # "dict"
        THEN [NoMessage EXCEPT !.msg = msg, !.outcome = "raised"]
      ELSE IF ts.kind = "invalid" \/ location.kind = "invalid"
        THEN [NoMessage EXCEPT !.msg = msg, !.outcome = "parse_failed"]
      ELSE IF status.kind = "str" /\ status.v = Text("INTRUSION")
        THEN [msg |-> msg, outcome |-> "alert", sink |-> 1, beeps |-> 1,
              status |-> status, location |-> location, timestamp |-> ts]
      ELSE [NoMessage EXCEPT !.msg = msg, !.outcome = "info", !.status = status]

\* on_message reading data["status"] inside the try block: a missing status
\* is a parse failure
on_message_StatusRequired(msg) ==
  LET data == IF msg.utf8 THEN JsonLoads(msg.text) ELSE JsonInvalid
      status == DictGet(data, "status", JsonInvalid)
      ts == DictGet(data, "timestamp", DEFAULT_TIMESTAMP)
      location == DictGet(data, "location", DEFAULT_LOCATION)
  IN  IF data.kind = "invalid"
        THEN [NoMessage EXCEPT !.msg = msg, !.outcome = "parse_failed"]
      ELSE IF data.kind # "dict"
        THEN [NoMessage EXCEPT !.msg = msg, !.outcome = "raised"]
      ELSE IF status.kind = "invalid"
        THEN [NoMessage EXCEPT !.msg = msg, !.outcome = "parse_failed"]
      ELSE IF status.kind = "str" /\ status.v = Text("INTRUSION")
        THEN [msg |-> msg, outcome |-> "alert", sink |-> 1, beeps |-> 1,
              status |-> status, location |-> location, timestamp |-> ts]
      ELSE [NoMessage EXCEPT !.msg = msg, !.outcome = "info", !.status = status]

\* on_message testing `if status:` instead of `status == "INTRUSION"`
on_message_AnyStatus(msg) ==
  LET data == IF msg.utf8 THEN JsonLoads(msg.text) ELSE JsonInvalid
      status == DictGet(data, "status", DEFAULT_STATUS)
      ts == DictGet(data, "timestamp", DEFAULT_TIMESTAMP)
      location == DictGet(data, "location", DEFAULT_LOCATION)
  IN  IF data.kind = "invalid"
        THEN [NoMessage EXCEPT !.msg = msg, !.outcome = "parse_failed"]
      ELSE IF data.kind # "dict"
        THEN [NoMessage EXCEPT !.msg = msg, !.outcome = "raised"]
      ELSE IF status.kind = "str" /\ status.v # Text("")
        THEN [msg |-> msg, outcome |-> "alert", sink |-> 1, beeps |-> 1,
              status |-> status, location |-> location, timestamp |-> ts]
      ELSE [NoMessage EXCEPT !.msg = msg, !.outcome = "info", !.status = status]

\* lines 68-85: what one on_message call does with payload msg.  outcome:
\* "parse_failed" (lines 72-74), "alert" (lines 80-83), "info" (line 85),
\* "raised" (an exception leaves the handler)
on_message(msg) ==
  LET data == IF msg.utf8 THEN JsonLoads(msg.text) ELSE JsonInvalid
      status == DictGet(data, "status", DEFAULT_STATUS)
      ts == DictGet(data, "timestamp", DEFAULT_TIMESTAMP)
      location == DictGet(data, "location", DEFAULT_LOCATION)
  IN  IF data.kind = "invalid"
        THEN [NoMessage EXCEPT !.msg = msg, !.outcome = "parse_failed"]
      ELSE IF data.kind # "dict"
        THEN [NoMessage EXCEPT !.msg = msg, !.outcome = "raised"]
      ELSE IF status.kind = "str" /\ status.v = Text("INTRUSION")
        THEN [msg |-> msg, outcome |-> "alert", sink |-> 1, beeps |-> 1,
              status |-> status, location |-> location, timestamp |-> ts]
      ELSE [NoMessage EXCEPT !.msg = msg, !.outcome = "info", !.status = status]

\* on_message run for a message that arrives while on_disconnect is still
\* in its retry loop (as with a handler thread of its own)
SubOnMessage_DuringRetry(msg) ==
  /\ prog = "subscriber"
  /\ subPc \in {"listening", "retry"}
  /\ subHandled < MaxMessages
  /\ subHandled' = subHandled + 1
  /\ subLast' = on_message(msg)
  /\ IF subLast'.outcome = "raised"
       THEN /\ subPc' = "finally"
            /\ subExitPath' = "exception"
       ELSE UNCHANGED <<subPc, subExitPath>>
  /\ UNCHANGED <<pureVars, pubVars, prog, subAckRc, subExit, subConn, subAcked, subSubscribed,
                 subRetries, subSlept, subDisconnects>>

\* on_connect subscribing on the first connection only
SubOnConnect_SubscribeOnce(rc) ==
  /\ prog = "subscriber"
  /\ subPc = "listening"
  /\ subConn = "connected"
  /\ ~subAcked
  /\ subAcked' = TRUE
  /\ subSubscribed' = (rc = 0 /\ subDisconnects = 0)
  /\ subAckRc' = rc
  /\ UNCHANGED <<pureVars, pubVars, prog, subPc, subExit, subConn, subExitPath, subHandled,
                 subLast, subRetries, subSlept, subDisconnects>>

\* lines 96-100: client.connect, or print and sys.exit(1)
SubConnect(ok) ==
  /\ prog = "subscriber"
  /\ subPc = "connect"
  /\ IF ok
       THEN /\ subConn' = "connected"
            /\ subPc' = "listening"
            /\ UNCHANGED <<subExit, subExitPath>>
       ELSE /\ subPc' = "exited"
            /\ subExitPath' = "connect_failed"
            /\ subExit' = EXIT_FAILURE
            /\ UNCHANGED subConn
  /\ UNCHANGED <<pureVars, pubVars, prog, subAckRc, subAcked, subSubscribed, subHandled,
                 subLast, subRetries, subSlept, subDisconnects>>

\* lines 47-53: on_connect, run by loop_forever when the broker answers
SubOnConnect(rc) ==
  /\ prog = "subscriber"
  /\ subPc = "listening"
  /\ subConn = "connected"
  /\ ~subAcked
  /\ subAcked' = TRUE
  /\ subSubscribed' = (rc = 0)
  /\ subAckRc' = rc
  /\ UNCHANGED <<pureVars, pubVars, prog, subPc, subExit, subConn, subExitPath, subHandled,
                 subLast, subRetries, subSlept, subDisconnects>>

\* lines 68-85: on_message, run by loop_forever for a message of the topic.
\* An exception that leaves the handler leaves loop_forever (line 105) and
\* is not caught by main (line 106 catches KeyboardInterrupt only).
SubOnMessage(msg) ==
  /\ prog = "subscriber"
  /\ subPc = "listening"
  /\ subConn = "connected"
  /\ subSubscribed
  /\ subHandled < MaxMessages
  /\ subHandled' = subHandled + 1
  /\ subLast' = on_message(msg)
  /\ IF subLast'.outcome = "raised"
       THEN /\ subPc' = "finally"
            /\ subExitPath' = "exception"
       ELSE UNCHANGED <<subPc, subExitPath>>
  /\ UNCHANGED <<pureVars, pubVars, prog, subAckRc, subExit, subConn, subAcked, subSubscribed,
                 subRetries, subSlept, subDisconnects>>

\* lines 55-58: on_disconnect, run by loop_forever when the connection is
\* lost (rc # 0): enters the retry loop of lines 59-66
SubOnDisconnect(rc) ==
  /\ prog = "subscriber"
  /\ subPc = "listening"
  /\ subConn = "connected"
  /\ subDisconnects < MaxDisconnects
  /\ subConn' = "disconnected"
  /\ subAcked' = FALSE
  /\ subSubscribed' = FALSE
  /\ IF SubReconnectsOn(rc)
       THEN /\ subPc' = "retry"
            /\ subDisconnects' = subDisconnects + 1
            /\ subRetries' = 0
       ELSE UNCHANGED <<subPc, subDisconnects, subRetries>>
  /\ subAckRc' = None
  /\ UNCHANGED <<pureVars, pubVars, prog, subExit, subExitPath, subHandled, subLast, subSlept>>

\* the retry loop giving up (break) after the second failed attempt
SubReconnectAttempt_GiveUp(ok) ==
  /\ prog = "subscriber"
  /\ subPc = "retry"
  /\ IF ok
       THEN /\ subConn' = "connected"
            /\ subPc' = "listening"
            /\ UNCHANGED <<subRetries, subSlept>>
       ELSE /\ subRetries' = IF subRetries < MaxRetries THEN subRetries + 1 ELSE subRetries
            /\ subSlept' = RETRY_DELAY_SECONDS
            /\ subPc' = IF subRetries >= 1 THEN "listening" ELSE "retry"
            /\ UNCHANGED subConn
  /\ UNCHANGED <<pureVars, pubVars, prog, subAckRc, subExit, subExitPath, subAcked, subSubscribed,
                 subHandled, subLast, subDisconnects>>

\* lines 59-66: one turn of the retry loop: client.reconnect() returns
\* (print, break) or raises (print, sleep 5, again)
SubReconnectAttempt(ok) ==
  /\ prog = "subscriber"
  /\ subPc = "retry"
  /\ IF ok
       THEN /\ subConn' = "connected"
            /\ subPc' = "listening"
            /\ UNCHANGED <<subRetries, subSlept>>
       ELSE /\ subRetries' = IF subRetries < MaxRetries THEN subRetries + 1 ELSE subRetries
            /\ subSlept' = RETRY_DELAY_SECONDS
            /\ UNCHANGED <<subConn, subPc>>
  /\ UNCHANGED <<pureVars, pubVars, prog, subAckRc, subExit, subExitPath, subAcked, subSubscribed,
                 subHandled, subLast, subDisconnects>>

\* lines 106-107: Ctrl+C while loop_forever runs (the retry loop of
\* on_disconnect included: KeyboardInterrupt is no Exception, line 64)
SubInterrupt ==
  /\ prog = "subscriber"
  /\ subPc \in {"listening", "retry"}
  /\ subPc' = "finally"
  /\ subExitPath' = "interrupt"
  /\ UNCHANGED <<pureVars, pubVars, prog, subAckRc, subExit, subConn, subAcked, subSubscribed,
                 subHandled, subLast, subRetries, subSlept,
                 subDisconnects>>

\* lines 108-110: finally: client.disconnect(); then main returns (status 0)
\* or the uncaught exception ends the process (status 1).  The disconnect is
\* the client's own: on_disconnect, if the library calls it, gets rc = 0.
SubShutdown ==
  /\ prog = "subscriber"
  /\ subPc = "finally"
  /\ subConn' = IF SubReconnectsOn(0) THEN "connected" ELSE "disconnected"
  /\ subAcked' = FALSE
  /\ subSubscribed' = FALSE
  /\ subPc' = "exited"
  /\ subExit' = IF subExitPath = "exception" THEN EXIT_FAILURE ELSE EXIT_OK
  /\ subAckRc' = None
  /\ UNCHANGED <<pureVars, pubVars, prog, subExitPath, subHandled, subLast, subRetries,
                 subSlept, subDisconnects>>

\* payloads the broker delivers
TS1 == "2024-01-01 00:00:00"
TS2 == "2024-12-31 23:59:59"
LOC1 == "Living Room"

Obj1(k1, v1) ==
  <<LBRACE, Str(k1), COLON, v1, RBRACE>>

Obj2(k1, v1, k2, v2) ==
  <<LBRACE, Str(k1), COLON, v1, COMMA, Str(k2), COLON, v2, RBRACE>>

Obj3(k1, v1, k2, v2, k3, v3) ==
  <<LBRACE, Str(k1), COLON, v1, COMMA, Str(k2), COLON, v2, COMMA,
    Str(k3), COLON, v3, RBRACE>>

Texts ==
  { <<JUNK>>,
    <<LBRACE, Str("status"), COLON>>,
    <<LBRACK, RBRACK>>,
    <<LBRACK, Str("INTRUSION"), RBRACK>>,
    <<Str("INTRUSION")>>,
    <<Num("1")>>,
    <<NULL>>,
    <<LBRACE, RBRACE>>,
    Obj3("status", Str("INTRUSION"), "location", Str(LOC1), "timestamp", Str(TS1)),
    Obj3("status", Str("INTRUSION"), "timestamp", Str(TS1), "location", Str(LOC1)),
    Obj1("status", Str("OK")),
    Obj1("status", Str("intrusion")),
    Obj1("status", Num("1")),
    Obj1("status", NULL),
    Obj1("status", Str("INTRUSION")),
    Obj2("status", Str("INTRUSION"), "timestamp", Str(TS1)),
    Obj2("status", Str("INTRUSION"), "location", Str(LOC1)),
    Obj2("location", Str(LOC1), "timestamp", Str(TS1)),
    Obj2("status", Str("INTRUSION"), "zone", Num("1")),
    Obj2("status", Str("OK"), "status", Str("INTRUSION")),
    Obj3("status", Str("OK"), "timestamp", Str(TS1), "location", Str(LOC1)) }

Payloads ==
  {[utf8 |-> TRUE, text |-> t] : t \in Texts}
    \cup {[utf8 |-> FALSE, text |-> <<JUNK>>]}

SubNext ==
  \/ \E ok \in BOOLEAN : SubConnect(ok)
  \/ \E rc \in {0, 5} : SubOnConnect(rc)
  \/ \E msg \in Payloads : SubOnMessage(msg)
  \/ \E rc \in {1, 7} : SubOnDisconnect(rc)
  \/ \E ok \in BOOLEAN : SubReconnectAttempt(ok)
  \/ SubInterrupt
  \/ SubShutdown

\* main() of publisher.py before line 99
PubInit ==
  /\ pubPc = "connect"
  /\ pubExit = NoExit
  /\ pubExitPath = "none"
  /\ pubConn = "disconnected"
  /\ loopRunning = FALSE
  /\ camOpen = FALSE
  /\ clock = StartTime
  /\ last_sent = None
  /\ frame = NoFrame
  /\ lastAcceptedAt = None
  /\ lastPublishOutcome = "none"
  /\ prevPubAt = None
  /\ lastPubAt = None
  /\ pubDisconnects = 0
  /\ pubReconnects = 0
  /\ pubReconnectFailures = 0

\* main() of subscriber.py before line 96
SubInit ==
  /\ subPc = "connect"
  /\ subExit = NoExit
  /\ subConn = "disconnected"
  /\ subAcked = FALSE
  /\ subSubscribed = FALSE
  /\ subExitPath = "none"
  /\ subHandled = 0
  /\ subLast = NoMessage
  /\ subRetries = 0
  /\ subSlept = 0
  /\ subDisconnects = 0
  /\ subAckRc = None

\* no frame evaluated on its own
DetectIdle ==
  /\ detections = << >>
  /\ flagged = "unset"

\* no payload built on its own
WireIdle ==
  /\ wireEvent = NoEvent
  /\ wirePayload = NoPayload
  /\ wireReceived = NoMessage

Init ==
  /\ prog \in {"publisher", "subscriber"}
  /\ PubInit
  /\ SubInit
  /\ DetectIdle
  /\ WireIdle

\* publisher.py lines 73-77: the payload dict of an alert
AlertPayload(ts, location) ==
  <<[key |-> Text("status"), val |-> Text("INTRUSION")],
    [key |-> Text("timestamp"), val |-> ts],
    [key |-> Text("location"), val |-> location]>>

\* the strings of at most MaxTextLen pieces
Pieces ==
  {LOC1, "n", QUOTE, BACKSLASH, LF, CJK}

Strings ==
  UNION {[1..n -> Pieces] : n \in 0..MaxTextLen}

\* LOCATION_LABEL (line 37) is configuration: any string; the timestamp is
\* what strftime("%Y-%m-%d %H:%M:%S") writes
AlertPayloads ==
  {AlertPayload(Text(ts), location) : ts \in {TS1, TS2}, location \in Strings}

\* one alert sent from the publisher to the subscriber
WireInit ==
  /\ prog = "wire"
  /\ PubInit
  /\ SubInit
  /\ DetectIdle
  /\ wireEvent \in AlertPayloads
  /\ wirePayload = NoPayload
  /\ wireReceived = NoMessage

\* publisher.py line 80: client.publish(MQTT_TOPIC, json.dumps(payload)); the
\* client sends the text as its UTF-8 bytes
WirePublish ==
  /\ prog = "wire"
  /\ wirePayload = NoPayload
  /\ wirePayload' = [utf8 |-> TRUE, text |-> JsonDumps(wireEvent)]
  /\ UNCHANGED <<prog, pubVars, subVars, detections, flagged, wireEvent, wireReceived>>

\* subscriber.py lines 68-85: on_message for that payload
WireReceive ==
  /\ prog = "wire"
  /\ wirePayload # NoPayload
  /\ wireReceived = NoMessage
  /\ wireReceived' = on_message(wirePayload)
  /\ UNCHANGED <<prog, pubVars, subVars, detections, flagged, wireEvent, wirePayload>>

WireNext ==
  \/ WirePublish
  \/ WireReceive

WireSpec ==
  WireInit /\ [][WireNext]_vars

\* one frame's detections evaluated on their own
DetectInit ==
  /\ prog = "detect"
  /\ PubInit
  /\ SubInit
  /\ WireIdle
  /\ detections \in Frames
  /\ flagged = "unset"

\* lines 132-167 on the frame's detections
DetectFrame ==
  /\ prog = "detect"
  /\ flagged = "unset"
  /\ flagged' = IF FrameIntrusion(detections) THEN "intruding" ELSE "clear"
  /\ UNCHANGED <<prog, pubVars, subVars, detections, wireEvent, wirePayload, wireReceived>>

DetectNext ==
  DetectFrame

DetectSpec ==
  DetectInit /\ [][DetectNext]_vars

Next ==
  \/ PubNext
  \/ SubNext

Spec ==
  Init /\ [][Next]_vars

\* The subscriber's retry loop keeps calling client.reconnect() (lines
\* 59-66), and the broker eventually accepts one of the calls.
FairSpec ==
  Spec /\ WF_vars(SubReconnectAttempt(TRUE))

\* ------------------------------------------------------------------------
\* Properties
\* ------------------------------------------------------------------------
\* a step of the publisher's frame loop (the loop_start thread's steps change
\* the connection or its counters, the frame loop's never do)
FrameStep ==
  /\ prog = "publisher"
  /\ pubPc = "loop"
  /\ pubConn' = pubConn
  /\ pubDisconnects' = pubDisconnects

\* some iteration of the frame loop
FrameLoopCanStep ==
  \/ \E dt \in 0..MaxStep, interrupt \in BOOLEAN : PubFrameNoRead(dt, interrupt)
  \/ \E intrusion \in BOOLEAN, dt \in 0..MaxStep, d1 \in 0..MaxDelay,
        d2 \in 0..MaxDelay, writeOk \in BOOLEAN, publishOk \in BOOLEAN :
       PubFrame(intrusion, dt, d1, d2, writeOk, publishOk, "none")

\* C1: any two publish calls of the frame loop that returned (alerts handed
\* to the transport) are at least COOLDOWN_SECONDS apart, whatever frames
\* (intruding or not, read or not, publish raised or not) lie between them.
C1_PublicationsCooldownApart ==
  (prevPubAt # None /\ lastPubAt # None)
    => lastPubAt - prevPubAt >= COOLDOWN_SECONDS

\* two publications exactly one cooldown apart, with a rejected intruding
\* frame as the latest frame
C1_Witness ==
  /\ prevPubAt # None
  /\ lastPubAt - prevPubAt = COOLDOWN_SECONDS
  /\ frame.intrusion /\ ~frame.accepted

\* C2 (as claimed): after an accepted frame whose publish raised, last_sent
\* is that frame's dispatch time or later, and an intruding frame less than
\* COOLDOWN_SECONDS after it is rejected: no evidence write, no publish.
C2_CooldownConsumedOnFailure ==
  /\ []((lastPublishOutcome = "raised" /\ pubPc = "loop")
          => last_sent # None /\ last_sent >= lastAcceptedAt)
  /\ [][(/\ FrameStep
         /\ lastPublishOutcome = "raised"
         /\ frame'.ret /\ frame'.intrusion
         /\ frame'.now - lastAcceptedAt < COOLDOWN_SECONDS)
          => (/\ ~frame'.accepted
              /\ frame'.evidence = "none"
              /\ frame'.publish = "none")]_vars

\* C3 (as claimed): on_message never raises, whatever the payload, and no
\* payload ends loop_forever.
C3_HandlerTotal ==
  /\ subLast.outcome # "raised"
  /\ subExitPath # "exception"

\* C4 (as claimed): an intruding frame at time now is accepted iff no frame
\* was accepted since startup or now - lastAcceptedAt >= COOLDOWN_SECONDS.
C4_GateRule ==
  [][(FrameStep /\ frame'.ret /\ frame'.intrusion)
       => (frame'.accepted <=>
             (lastAcceptedAt = None
                \/ frame'.now - lastAcceptedAt >= COOLDOWN_SECONDS))]_vars

\* C5: last_sent changes only in a frame the gate accepted; a frame that was
\* not read, is not intruding or was rejected leaves last_sent and the
\* histories of accepted frames and publications unchanged and does no
\* evidence write and no publish; once set, last_sent is never None again
\* and never decreases.
C5_CooldownStateChangesOnlyOnAccept ==
  [][/\ (last_sent' # last_sent => FrameStep /\ frame'.accepted)
     /\ (FrameStep /\ ~frame'.accepted
           => /\ last_sent' = last_sent
              /\ frame'.evidence = "none"
              /\ frame'.publish = "none"
              /\ UNCHANGED <<lastAcceptedAt, lastPublishOutcome, prevPubAt, lastPubAt>>)
     /\ (last_sent # None => last_sent' # None /\ last_sent' >= last_sent)]_vars

\* an intruding frame rejected by the gate, last_sent having been set by a
\* publish that returned
C5_Witness ==
  /\ frame.ret /\ frame.intrusion /\ ~frame.accepted
  /\ last_sent # None /\ last_sent > EPOCH_ZERO
  /\ lastPubAt # None

\* C6: for every payload that decodes to a JSON object, on_message invokes
\* the notification sink (alert line and beep) exactly once, with the
\* message's location and timestamp (or their defaults), iff the value of its
\* status field is the string "INTRUSION"; otherwise the sink is not invoked
\* and the message is logged as informational.
C6_SinkIffIntrusion ==
  LET data == JsonLoads(subLast.msg.text)
      m == data.members
      isIntrusion ==
        \E i \in 1..Len(m) :
          /\ m[i].key = Text("status")
          /\ m[i].val.kind = "str" /\ m[i].val.v = Text("INTRUSION")
          /\ \A j \in (i + 1)..Len(m) : m[j].key # Text("status")
      field(key, default) ==
        IF \E i \in 1..Len(m) : m[i].key = Text(key)
          THEN LET i == CHOOSE i \in 1..Len(m) :
                          m[i].key = Text(key) /\ \A j \in (i + 1)..Len(m) : m[j].key # Text(key)
               IN  m[i].val.v
          ELSE default.v
  IN  (subLast.outcome # "none" /\ subLast.msg.utf8 /\ data.kind = "dict")
        => IF isIntrusion
             THEN /\ subLast.outcome = "alert"
                  /\ subLast.sink = 1 /\ subLast.beeps = 1
                  /\ subLast.location.v = field("location", DEFAULT_LOCATION)
                  /\ subLast.timestamp.v = field("timestamp", DEFAULT_TIMESTAMP)
             ELSE /\ subLast.outcome = "info"
                  /\ subLast.sink = 0 /\ subLast.beeps = 0

\* the scenario of the specification: the alert for Living Room was raised
C6_Witness ==
  /\ subLast.outcome = "alert"
  /\ subLast.sink = 1
  /\ subLast.location.v = Text(LOC1)
  /\ subLast.timestamp.v = Text(TS1)

\* C7: after an unexpected disconnect the subscriber stays in the retry loop,
\* sleeping RETRY_DELAY_SECONDS after every failed attempt, and leaves it
\* only by a reconnect that succeeded (or when the process is interrupted,
\* the specification's "until the process is killed"); if the broker
\* eventually accepts an attempt, the subscriber is connected again.
C7_RetriesUntilReconnected ==
  /\ [][(subPc = "retry" /\ subPc' # "retry")
          => \/ subPc' = "listening" /\ subConn' = "connected"
             \/ subExitPath' = "interrupt"]_vars
  /\ [][(subPc = "retry" /\ subRetries' # subRetries)
          => subPc' = "retry" /\ subSlept' = RETRY_DELAY_SECONDS]_vars
  /\ ((subPc = "retry") ~> (subConn = "connected" \/ subExitPath = "interrupt"))

\* connected again after two failed attempts
C7_Witness ==
  /\ subPc = "listening"
  /\ subConn = "connected"
  /\ subDisconnects >= 1
  /\ subRetries >= 2
  /\ subSlept = RETRY_DELAY_SECONDS

\* C8: every unexpected disconnect event of the publisher is answered by
\* exactly one client.reconnect() on the loop_start thread, a failed one is
\* logged and not repeated; the handler leaves the frame loop's state alone,
\* and whenever main() is in the frame loop an iteration can be taken,
\* whatever the connection's state.
C8_SingleReconnectNeverBlocksFrames ==
  /\ [](/\ pubReconnects = pubDisconnects
        /\ pubReconnectFailures <= pubReconnects
        /\ (pubPc = "loop" => ENABLED FrameLoopCanStep))
  /\ [][(pubDisconnects' # pubDisconnects)
          => /\ pubReconnects' = pubReconnects + 1
             /\ UNCHANGED <<pubPc, pubExitPath, clock, last_sent, frame>>]_vars

\* the frame loop has gone on after a reconnect that failed
C8_Witness ==
  /\ pubPc = "loop"
  /\ pubConn = "disconnected"
  /\ pubReconnectFailures = 1
  /\ pubReconnects = 1
  /\ frame.ret /\ frame.accepted

\* C9 (as claimed): when the publisher process has ended, the camera is
\* released and the transport's loop is stopped and disconnected.
C9_ResourcesReleasedOnExit ==
  pubPc = "exited"
    => ~camOpen /\ ~loopRunning /\ pubConn = "disconnected"

\* C10 (as claimed): the publisher exits non-zero after a failed broker
\* connect or camera open at startup and zero after the quit key or an
\* interrupt; the subscriber exits non-zero after a failed connect at startup
\* and zero after an interrupt.
C10_ExitStatus ==
  /\ pubExitPath \in {"connect_failed", "camera_failed"} /\ pubPc = "exited"
       => pubExit # EXIT_OK
  /\ pubExitPath \in {"quit", "interrupt"} /\ pubPc = "exited"
       => pubExit = EXIT_OK
  /\ subExitPath = "connect_failed" /\ subPc = "exited"
       => subExit # EXIT_OK
  /\ subExitPath = "interrupt" /\ subPc = "exited"
       => subExit = EXIT_OK

\* ------------------------------------------------------------------------
\* C11
\* ------------------------------------------------------------------------
\* twice the centre of the box as YOLO gave it, against twice the zone
BoxCenterInZone(det) ==
  /\ 2 * Px(ROI_X1) <= det.x1 + det.x2
  /\ det.x1 + det.x2 <= 2 * Px(ROI_X2)
  /\ 2 * Px(ROI_Y1) <= det.y1 + det.y2
  /\ det.y1 + det.y2 <= 2 * Px(ROI_Y2)

\* the same for the box with its corners cut to whole pixels
PixelBoxCenterInZone(det) ==
  /\ 2 * Px(ROI_X1) <= IntOf(det.x1) + IntOf(det.x2)
  /\ IntOf(det.x1) + IntOf(det.x2) <= 2 * Px(ROI_X2)
  /\ 2 * Px(ROI_Y1) <= IntOf(det.y1) + IntOf(det.y2)
  /\ IntOf(det.y1) + IntOf(det.y2) <= 2 * Px(ROI_Y2)

\* C11 as stated: a frame is flagged intruding iff one of its detections is
\* a person with confidence >= CONF_THRESHOLD whose bounding-box centre is
\* in the zone, edges included.
C11_FlaggedIffPersonCenterInZone ==
  flagged # "unset" =>
    ((flagged = "intruding") <=>
       \E i \in 1..Len(detections) :
         /\ detections[i].label = "person"
         /\ detections[i].conf >= CONF_THRESHOLD
         /\ BoxCenterInZone(detections[i]))

\* C11 amended: a frame is flagged intruding iff one of its detections is a
\* person with confidence >= CONF_THRESHOLD and the centre of its box, the
\* corners first cut to whole pixels, is in the zone, edges included.
C11_FlaggedIffPersonPixelCenterInZone ==
  flagged # "unset" =>
    ((flagged = "intruding") <=>
       \E i \in 1..Len(detections) :
         /\ detections[i].label = "person"
         /\ detections[i].conf >= CONF_THRESHOLD
         /\ PixelBoxCenterInZone(detections[i]))

\* a frame flagged for one person at exactly the threshold whose centre is
\* exactly the zone's top-left corner
C11_Witness ==
  /\ flagged = "intruding"
  /\ Len(detections) = 1
  /\ detections[1].conf = CONF_THRESHOLD
  /\ IntOf(detections[1].x1) + IntOf(detections[1].x2) = 2 * Px(ROI_X1)
  /\ IntOf(detections[1].y1) + IntOf(detections[1].y2) = 2 * Px(ROI_Y1)

\* ------------------------------------------------------------------------
\* C12
\* ------------------------------------------------------------------------
\* C12: for every alert payload the publisher builds and sends, the status,
\* timestamp and location the subscriber's handler obtains from the received
\* payload are the strings the publisher put into it.
C12_WireRoundTrip ==
  wireReceived.outcome # "none" =>
    /\ wireReceived.outcome = "alert"
    /\ wireReceived.status = JsonValue("str", wireEvent[1].val, << >>)
    /\ wireReceived.timestamp = JsonValue("str", wireEvent[2].val, << >>)
    /\ wireReceived.location = JsonValue("str", wireEvent[3].val, << >>)

\* an alert received whose location holds a quote and a backslash followed
\* by the letter n
C12_Witness ==
  /\ wireReceived.outcome = "alert"
  /\ \E i \in 1..(Len(wireEvent[3].val) - 1) :
       wireEvent[3].val[i] = BACKSLASH /\ wireEvent[3].val[i + 1] = "n"
  /\ \E i \in 1..Len(wireEvent[3].val) : wireEvent[3].val[i] = QUOTE
  /\ wireReceived.location.v = wireEvent[3].val

\* ------------------------------------------------------------------------
\* C13, C14
\* ------------------------------------------------------------------------
\* the payload of the latest on_message call is the text of a JSON object
LastIsObject ==
  /\ subLast.outcome # "none"
  /\ subLast.msg.utf8
  /\ JsonLoads(subLast.msg.text).kind = "dict"

\* that object has a member named key
LastHasKey(key) ==
  \E i \in 1..Len(JsonLoads(subLast.msg.text).members) :
    JsonLoads(subLast.msg.text).members[i].key = Text(key)

\* that object's status is the string "INTRUSION"
LastStatusIsIntrusion ==
  \E i \in 1..Len(JsonLoads(subLast.msg.text).members) :
    LET m == JsonLoads(subLast.msg.text).members
    IN  /\ m[i].key = Text("status")
        /\ m[i].val = JsonStr("INTRUSION")
        /\ \A j \in (i + 1)..Len(m) : m[j].key # Text("status")

\* C13: a payload that is a JSON object with status "INTRUSION" but without
\* timestamp and/or location is not a decode failure: each missing field is
\* replaced by its default placeholder and the sink is invoked exactly once.
C13_MissingFieldsDefaulted ==
  (/\ LastIsObject
   /\ LastStatusIsIntrusion
   /\ ~LastHasKey("timestamp") \/ ~LastHasKey("location"))
    => /\ subLast.outcome = "alert"
       /\ subLast.sink = 1
       /\ subLast.beeps = 1
       /\ ~LastHasKey("timestamp") => subLast.timestamp = DEFAULT_TIMESTAMP
       /\ ~LastHasKey("location") => subLast.location = DEFAULT_LOCATION

\* an alert raised for {"status": "INTRUSION", "timestamp": ...}: the
\* timestamp is the message's, the location is the placeholder
C13_Witness ==
  /\ LastIsObject
  /\ LastStatusIsIntrusion
  /\ LastHasKey("timestamp") /\ ~LastHasKey("location")
  /\ subLast.sink = 1
  /\ subLast.timestamp = JsonStr(TS1)
  /\ subLast.location = DEFAULT_LOCATION

\* C14 as stated: a payload that is a JSON object with no status field is
\* handled as a decode failure (logged as a parse failure and discarded),
\* as invalid text is.
C14_MissingStatusIsParseFailure ==
  (LastIsObject /\ ~LastHasKey("status"))
    => subLast.outcome = "parse_failed"

\* C14 amended: a payload that is a JSON object with no status field is not
\* a decode failure: its status defaults to the empty string and it is
\* handled as a decoded message with a non-alert status (logged as
\* informational, the sink not invoked).
C14_MissingStatusIsInformational ==
  (LastIsObject /\ ~LastHasKey("status"))
    => /\ subLast.outcome = "info"
       /\ subLast.status = DEFAULT_STATUS
       /\ subLast.sink = 0
       /\ subLast.beeps = 0

\* the object {"location": ..., "timestamp": ...} was logged as informational
C14_Witness ==
  /\ LastIsObject
  /\ ~LastHasKey("status")
  /\ LastHasKey("location") /\ LastHasKey("timestamp")
  /\ subLast.outcome = "info"

\* ------------------------------------------------------------------------
\* C15, C16, C17
\* ------------------------------------------------------------------------
\* C15: every evidence write and every publish attempt is preceded, in the
\* same frame, by an accepting cooldown decision on an intruding frame, and
\* the evidence write comes before the publish attempt; a frame that is not
\* intruding, or that the gate rejected, has neither.
C15_EvidenceThenPublishAfterAccept ==
  LET acts == frame.acts
      At(act) == {i \in 1..Len(acts) : acts[i].act = act}
  IN  /\ \A i \in At("imwrite") \cup At("publish") :
           /\ frame.intrusion
           /\ \E g \in At("gate") : g < i /\ acts[g].result = "accepts"
      /\ \A i \in At("publish") : \E w \in At("imwrite") : w < i
      /\ (~frame.intrusion \/ ~frame.accepted)
           => /\ At("imwrite") = {} /\ At("publish") = {}
              /\ frame.evidence = "none" /\ frame.publish = "none"
      /\ frame.accepted <=> (\E g \in At("gate") : acts[g].result = "accepts")

\* an accepted frame whose evidence was written and whose publish returned
C15_Witness ==
  /\ frame.accepted
  /\ Len(frame.acts) = 3
  /\ frame.evidence = "written"
  /\ frame.publish = "returned"

\* C16: a failed evidence write is still followed by the publish attempt of
\* the same frame, a failed publish does not undo or skip the evidence
\* write, and after either failure or both the loop goes on to the next
\* frame.
C16_FailuresIndependentAndNonFatal ==
  /\ frame.evidence = "failed" => frame.publish \in {"returned", "raised"}
  /\ frame.publish = "raised" => frame.evidence \in {"written", "failed"}
  /\ frame.accepted
       => /\ frame.evidence # "none" /\ frame.publish # "none"
          /\ frame.fault = "none" => pubPc = "loop"

\* both the evidence write and the publish of a frame failed, and the loop
\* is at its next iteration
C16_Witness ==
  /\ frame.accepted
  /\ frame.evidence = "failed"
  /\ frame.publish = "raised"
  /\ frame.fault = "none"
  /\ pubPc = "loop"

\* C17: evidence file names never collide within a run: any two evidence
\* captures fall in different seconds, the captures of frames whose publish
\* failed included.  Time never decreases, so a capture collides with an
\* earlier one iff it collides with the latest one, the capture of the frame
\* at lastAcceptedAt.
C17_EvidenceNamesNeverCollide ==
  [][(FrameStep /\ frame'.accepted /\ lastAcceptedAt # None)
       => frame'.name # EvidenceName(lastAcceptedAt)]_vars

\* ------------------------------------------------------------------------
\* C18, C19, C20
\* ------------------------------------------------------------------------
\* C18: while the subscriber is in the reconnect retry loop no inbound
\* message is handled and no other handler runs; a message is handled only
\* while the receive loop is listening on a connection, and handling resumes
\* only after a reconnect succeeded.
C18_NoHandlingDuringRetry ==
  [][/\ subPc = "retry"
          => /\ subHandled' = subHandled
             /\ subLast' = subLast
             /\ subAcked' = subAcked
             /\ subSubscribed' = subSubscribed
     /\ subHandled' # subHandled
          => /\ subPc = "listening"
             /\ subConn = "connected"
     /\ (subPc = "retry" /\ subPc' = "listening")
          => subConn' = "connected"]_vars

\* the retry loop running, with failed attempts behind it, in a run that
\* had handled a message before the connection was lost
C18_Witness ==
  /\ subPc = "retry"
  /\ subRetries >= 2
  /\ subHandled >= 1
  /\ subConn = "disconnected"

\* C19: whenever the subscriber is connected and the acknowledgement was
\* processed with rc = 0, at the first connect and after every reconnect, it
\* has subscribed to the alert topic; an acknowledgement with rc # 0 issues
\* no subscribe.
C19_SubscribedWheneverAcknowledged ==
  /\ (subConn = "connected" /\ subAcked /\ subAckRc = 0) => subSubscribed
  /\ (subAcked /\ subAckRc # 0) => ~subSubscribed
  /\ subSubscribed => (subConn = "connected" /\ subAcked)

\* subscribed again on the connection made by a reconnect
C19_Witness ==
  /\ subDisconnects >= 1
  /\ subPc = "listening"
  /\ subConn = "connected"
  /\ subAckRc = 0
  /\ subSubscribed

\* C20: a disconnect reported with rc = 0, as at shutdown, never triggers a
\* reconnect attempt, in the publisher or in the subscriber: reconnect
\* attempts are made only for an unexpected disconnect (rc # 0), and a
\* client that shutdown has disconnected stays disconnected.
C20_NoReconnectOnIntentionalDisconnect ==
  /\ [][/\ pubReconnects' # pubReconnects
             => pubDisconnects' = pubDisconnects + 1
        /\ (subPc # "retry" /\ subPc' = "retry")
             => subDisconnects' = subDisconnects + 1
        /\ (pubPc = "exited" \/ subPc = "exited")
             => (pubConn' = pubConn /\ subConn' = subConn)]_vars
  /\ [](pubPc = "exited" /\ pubExitPath \in {"quit", "interrupt", "error"}
          => pubConn = "disconnected")
  /\ [](subPc = "exited" => subConn = "disconnected")

\* the publisher reconnected after an unexpected disconnect, then shut down
\* on the q key and is disconnected
C20_Witness ==
  /\ pubPc = "exited"
  /\ pubExitPath = "quit"
  /\ pubReconnects >= 1
  /\ pubReconnects = pubDisconnects
  /\ pubConn = "disconnected"

====
